---- MODULE Spec2Model ----
(***************************************************************************)
(* Model of liiweb/client.py: LIIWebClient, a synchronous client for the   *)
(* LIIWeb JSON:API.  One behaviour is one client instance performing one   *)
(* call; the HTTP exchange is observed through the history variables reqs  *)
(* (requests issued), resps (responses handled) and logs (log.error).      *)
(*                                                                         *)
(* Strings that the code slices or tests by prefix (URLs) are sequences of *)
(* characters up to the end of the scheme and of opaque atoms after it.    *)
(* JSON values are tagged records: null, string, object, list of objects.  *)
(***************************************************************************)
EXTENDS Integers, Sequences, FiniteSets, TLC

VARIABLES self_url, pc, op, server, url, params, results, reqs, resps, logs, outcome

vars == <<self_url, pc, op, server, url, params, results, reqs, resps, logs, outcome>>

(* ------------------------------ bounds -------------------------------- *)

\* a list_legislation call is cut off after this many requests (the code
\* has no such limit; the cap keeps cyclic page chains finite-state)
MaxRequests == 4

(* ------------------------- Python string helpers ---------------------- *)

\* str.startswith
StartsWith(s, p) == Len(s) >= Len(p) /\ SubSeq(s, 1, Len(p)) = p

\* s[i:]
Slice(s, i) == SubSeq(s, i + 1, Len(s))

\* ','.join(fields)
RECURSIVE Join(_)
Join(fs) ==
    IF Len(fs) = 0 THEN <<>>
    ELSE IF Len(fs) = 1 THEN <<fs[1]>>
    ELSE <<fs[1], ",">> \o Join(Tail(fs))

HTTP == <<"h", "t", "t", "p", ":", "/", "/">>
HTTPS == <<"h", "t", "t", "p", "s", ":", "/", "/">>

JSON_CONTENT_TYPE == "application/vnd.api+json"

LEGISLATION_PATH == <<"/jsonapi/node/legislation">>

(* ----------------------------- JSON values ----------------------------- *)

\* an object is a sequence of <<key, value>> pairs; <<>> is {}
JNull == [t |-> "null", s |-> "", o |-> <<>>, l |-> <<>>]
JStr(x) == [t |-> "str", s |-> x, o |-> <<>>, l |-> <<>>]
JObj(x) == [t |-> "obj", s |-> "", o |-> x, l |-> <<>>]
JList(x) == [t |-> "list", s |-> "", o |-> <<>>, l |-> x]

\* Python truthiness of a JSON value
Truthy(j) ==
    CASE j.t = "null" -> FALSE
      [] j.t = "str" -> j.s # ""
      [] j.t = "obj" -> j.o # <<>>
      [] j.t = "list" -> j.l # <<>>

\* obj[key]
ObjGet(o, k) == LET i == CHOOSE i \in 1..Len(o) : o[i][1] = k IN o[i][2]

\* an optional string: Python None or a str
None == [some |-> FALSE, s |-> <<>>]
Some(x) == [some |-> TRUE, s |-> x]
TruthyStr(u) == u.some /\ u.s # <<>>

(* ------------------------------ the server ----------------------------- *)

O1 == <<<<"id", "n1">>>>
O2 == <<<<"id", "n2">>, <<"field_frbr_uri", "/akn/za/act/1998/1">>>>

\* status codes of the valid HTTP range (100..599), with the values on both
\* sides of the 400 boundary and the last one that raise_for_status covers
Statuses == {200, 201, 399, 400, 404, 422, 500, 599}
Texts == {"body1", "body2"}

NoLinks == [next |-> FALSE, href |-> <<>>]
NextLink(h) == [next |-> TRUE, href |-> h]

\* a response: status line, raw body text, and the parsed JSON:API envelope
\* (its `data` member and its `links` member)
Responses(D) == [status : Statuses, text : Texts, data : D, links : {NoLinks}]

BaseURLs == {HTTP \o <<"s">>, HTTPS \o <<"s">>}

\* the pages of the legislation collection, keyed by URL without scheme
FirstPage == <<"s">> \o LEGISLATION_PATH
PageKeys == {FirstPage, <<"a">>, <<"b">>}
\* next links are absolute URLs, of either scheme
LinkURLs == {HTTP \o <<"a">>, HTTPS \o <<"a">>, HTTP \o <<"b">>, HTTPS \o <<"b">>}
PageData == {<<>>, <<O1>>, <<O2, O1>>}
PageResponses ==
    [status : {200}, text : {"ok"}, data : {JList(d) : d \in PageData},
     links : {NoLinks} \cup {NextLink(h) : h \in LinkURLs}]
    \cup [status : {404, 500}, text : {"body1"}, data : {JNull}, links : {NoLinks}]

NotFound == [status |-> 404, text |-> "body1", data |-> JNull, links |-> NoLinks]

NoServer == [k \in PageKeys |-> NotFound]

\* the server answers the same page over http and https
PageOf(u) ==
    IF StartsWith(u, HTTPS) THEN Slice(u, 8)
    ELSE IF StartsWith(u, HTTP) THEN Slice(u, 7)
    ELSE u

Serve(srv, u) == IF PageOf(u) \in DOMAIN srv THEN srv[PageOf(u)] ELSE NotFound

(* ------------------------------ the client ----------------------------- *)

SessionHeaders == {<<"Accept", JSON_CONTENT_TYPE>>}

\* requests merges per-call headers over the session's
MergeHeaders(over) ==
    over \cup {h \in SessionHeaders : \A g \in over : g[1] # h[1]}

Request(method, u, ps, hs) ==
    [method |-> method, url |-> u, params |-> ps, headers |-> MergeHeaders(hs)]

\* faulty variant: a transport that sends every request twice
SentTwice(log, req) == Append(Append(log, req), req)

\* session.get / post / patch / delete: one request on the wire
Sent(log, req) == Append(log, req)

\* faulty variant: only server errors raise
RaisesForServerError(status) == 500 <= status /\ status < 600

\* Response.raise_for_status: HTTPError for 4xx and 5xx
RaisesForStatus(status) == 400 <= status /\ status < 600

Pending == [kind |-> "pending", status |-> 0, val |-> JNull]
Return(v) == [kind |-> "return", status |-> 0, val |-> v]
Raise(status) == [kind |-> "raise", status |-> status, val |-> JNull]

\* resp.json()['data']
JsonData(resp) == resp.data

\* log.error(f"Error from lii: {resp.text}")
LogError(resp) == <<"Error from lii: ", resp.text>>

Init ==
    /\ self_url \in BaseURLs
    /\ pc = "idle"
    /\ op = "none"
    /\ server = NoServer
    /\ url = None
    /\ params = {}
    /\ results = <<>>
    /\ reqs = <<>>
    /\ resps = <<>>
    /\ logs = <<>>
    /\ outcome = Pending

\* a single-request operation: send, receive, log, return or raise
Single(name, req, resp, res) ==
    /\ pc = "idle"
    /\ pc' = "done"
    /\ op' = name
    /\ reqs' = Sent(reqs, req)
    /\ resps' = Append(resps, resp)
    /\ logs' = logs \o res.logs
    /\ outcome' = res.outcome
    /\ UNCHANGED <<self_url, server, url, params, results>>

ExprURIs == {<<"/akn/za/act/1998/1/eng@1998-01-01">>, <<"/akn/za-cpt/act/by-law/2010/1/eng@2010-01-01">>}
Prefixes == {<<"/akn/za/act/1998/1">>, <<"/akn/zz/act/1900/1">>}
FieldSets == {<<>>, <<"field_frbr_uri">>, <<"field_frbr_uri", "title">>}
Infos == {O1, O2}

FieldsParam(fields) ==
    IF fields # <<>> THEN {<<"fields[node--legislation]", Join(fields)>>} ELSE {}

\* what a handler does with the response: the log lines it emits and how it ends
Result(lg, out) == [logs |-> lg, outcome |-> out]

\* faulty variant: the last match instead of the first
find_legislation_result_last(resp) ==
    IF RaisesForStatus(resp.status) THEN Result(<<>>, Raise(resp.status))
    ELSE IF Truthy(resp.data) THEN Result(<<>>, Return(JObj(resp.data.l[Len(resp.data.l)])))
    ELSE Result(<<>>, Return(JNull))

\* lines 46-49
find_legislation_result(resp) ==
    IF RaisesForStatus(resp.status) THEN Result(<<>>, Raise(resp.status))
    ELSE IF Truthy(resp.data) THEN Result(<<>>, Return(JObj(resp.data.l[1])))
    ELSE Result(<<>>, Return(JNull))

find_legislation ==
    /\ pc = "idle"
    /\ \E prefix \in Prefixes, fields \in FieldSets,
       resp \in Responses({JList(<<>>), JList(<<O1>>), JList(<<O2, O1>>)}) :
        Single("find_legislation",
               Request("GET", self_url \o LEGISLATION_PATH,
                       {<<"filter[field_frbr_uri][value]", prefix>>,
                        <<"filter[field_frbr_uri][operator]", <<"STARTS_WITH">>>>}
                       \cup FieldsParam(fields), {}),
               resp, find_legislation_result(resp))

\* faulty variant: no special case for 404
get_legislation_result_no404(resp) ==
    IF RaisesForStatus(resp.status) THEN Result(<<>>, Raise(resp.status))
    ELSE IF Truthy(resp.data) THEN Result(<<>>, Return(resp.data))
    ELSE Result(<<>>, Return(JNull))

\* lines 68-73
get_legislation_result(resp) ==
    IF resp.status = 404 THEN Result(<<>>, Return(JNull))
    ELSE IF RaisesForStatus(resp.status) THEN Result(<<>>, Raise(resp.status))
    ELSE IF Truthy(resp.data) THEN Result(<<>>, Return(resp.data))
    ELSE Result(<<>>, Return(JNull))

get_legislation ==
    /\ pc = "idle"
    /\ \E expr_uri \in ExprURIs, fields \in FieldSets,
       resp \in Responses({JNull, JObj(<<>>), JList(<<>>), JObj(O1), JObj(O2)}) :
        Single("get_legislation",
               Request("GET", self_url \o expr_uri, FieldsParam(fields),
                       {<<"Accept", "application/json">>}),
               resp, get_legislation_result(resp))

\* faulty variant: fails without logging, as update_legislation does
create_result_nolog(resp) ==
    IF RaisesForStatus(resp.status) THEN Result(<<>>, Raise(resp.status))
    ELSE Result(<<>>, Return(JsonData(resp)))

\* lines 110-111, 125-126, 169-170
LogIfError(resp) == IF resp.status >= 400 THEN <<LogError(resp)>> ELSE <<>>

\* lines 110-113, 125-128
create_result(resp) ==
    Result(LogIfError(resp),
           IF RaisesForStatus(resp.status) THEN Raise(resp.status)
           ELSE Return(JsonData(resp)))

create_legislation_work ==
    /\ pc = "idle"
    /\ \E info \in Infos, resp \in Responses({JObj(O1), JObj(O2)}) :
        Single("create_legislation_work",
               Request("POST", self_url \o LEGISLATION_PATH, {},
                       {<<"Content-Type", JSON_CONTENT_TYPE>>}) @@ [json |-> info],
               resp, create_result(resp))

create_legislation ==
    /\ pc = "idle"
    /\ \E expr_uri \in ExprURIs, info \in Infos, resp \in Responses({JObj(O1), JObj(O2)}) :
        Single("create_legislation",
               Request("POST", self_url \o expr_uri, {},
                       {<<"Content-Type", JSON_CONTENT_TYPE>>}) @@ [json |-> info],
               resp, create_result(resp))

\* lines 136 (the method falls off its end: Python returns None)
delete_legislation_result(resp) ==
    IF RaisesForStatus(resp.status) THEN Result(<<>>, Raise(resp.status))
    ELSE Result(<<>>, Return(JNull))

delete_legislation ==
    /\ pc = "idle"
    /\ \E expr_uri \in ExprURIs, resp \in Responses({JNull, JObj(O1)}) :
        Single("delete_legislation",
               Request("DELETE", self_url \o expr_uri, {}, {}),
               resp, delete_legislation_result(resp))

\* faulty variant: the return statement is missing
update_legislation_result_noreturn(resp) ==
    IF RaisesForStatus(resp.status) THEN Result(<<>>, Raise(resp.status))
    ELSE Result(<<>>, Return(JNull))

\* lines 148-149
update_legislation_result(resp) ==
    IF RaisesForStatus(resp.status) THEN Result(<<>>, Raise(resp.status))
    ELSE Result(<<>>, Return(JsonData(resp)))

update_legislation ==
    /\ pc = "idle"
    /\ \E expr_uri \in ExprURIs, info \in Infos, resp \in Responses({JObj(O1), JObj(O2)}) :
        Single("update_legislation",
               Request("PATCH", self_url \o expr_uri, {},
                       {<<"Content-Type", JSON_CONTENT_TYPE>>}) @@ [json |-> info],
               resp, update_legislation_result(resp))

NodeTypes == {"legislation"}
FieldNames == {"field_images", "field_files"}
FileNames == {"a.png"}
FileData == {"bytes1"}

\* lines 169-172
upload_file_result(resp) ==
    Result(LogIfError(resp),
           IF RaisesForStatus(resp.status) THEN Raise(resp.status)
           ELSE Return(JStr(ObjGet(JsonData(resp).o, "id"))))

upload_file ==
    /\ pc = "idle"
    /\ \E node \in NodeTypes, fname \in FileNames, data \in FileData, fieldname \in FieldNames,
       resp \in Responses({JObj(O1), JObj(O2)}) :
        Single("upload_file",
               Request("POST", self_url \o <<"/jsonapi/node/", node, "/", fieldname>>, {},
                       {<<"Content-Type", "application/octet-stream">>,
                        <<"Content-Disposition", <<"attachment; filename=\"", fname, "\"">>>>})
               @@ [data |-> data],
               resp, upload_file_result(resp))

\* lines 181-182
list_legislation_files_result(resp) ==
    IF RaisesForStatus(resp.status) THEN Result(<<>>, Raise(resp.status))
    ELSE Result(<<>>, Return(JsonData(resp)))

Nids == {"n1"}

list_legislation_files ==
    /\ pc = "idle"
    /\ \E nid \in Nids, field \in FieldNames,
       resp \in Responses({JList(<<>>), JList(<<O1>>)}) :
        Single("list_legislation_files",
               Request("GET", self_url \o <<"/jsonapi/node/legislation/", nid, "/", field>>, {}, {}),
               resp, list_legislation_files_result(resp))

PlaceCodes == {"za", "za-cpt"}

\* faulty variant: the page is put in front of the results
ExtendFront(rs, info) == info.data.l \o rs

\* results.extend(info['data'])
Extend(rs, info) == rs \o info.data.l

\* info['links'].get('next', {}).get('href')
NextHref(info) == IF info.links.next THEN Some(info.links.href) ELSE None

\* faulty variant: the link is followed as the server sent it
RewriteNothing(u) == u

\* lines 94-95
RewriteScheme(u) ==
    IF TruthyStr(u) /\ StartsWith(u.s, HTTP) THEN Some(HTTPS \o Slice(u.s, 7)) ELSE u

\* faulty variant: the parameters are kept
KeepParams(ps) == ps

\* line 97: params = {}
ClearParams(ps) == {}

\* lines 80-86: the locals before the loop; the server's pages are fixed for
\* the duration of the call
list_legislation ==
    /\ pc = "idle"
    /\ \E place_code \in PlaceCodes, srv \in [PageKeys -> PageResponses] :
        /\ pc' = "loop"
        /\ op' = "list_legislation"
        /\ server' = srv
        /\ results' = <<>>
        /\ params' = {<<"filter[field_frbr_uri][value]", <<"/akn/", place_code, "/">>>>,
                      <<"filter[field_frbr_uri][operator]", <<"STARTS_WITH">>>>,
                      <<"fields[node--legislation]", <<"field_frbr_uri">>>>}
        /\ url' = Some(self_url \o LEGISLATION_PATH)
        /\ UNCHANGED <<self_url, reqs, resps, logs, outcome>>

\* faulty variant: the next link is read but url is never reassigned
ListAdvanceStale(info) ==
    /\ results' = Extend(results, info)
    /\ url' = url
    /\ params' = ClearParams(params)
    /\ pc' = "loop"
    /\ outcome' = outcome

\* lines 90-99: the rest of an iteration after a successful response; when
\* the new url is falsy the while loop exits and the results are returned
ListAdvance(info) ==
    /\ results' = Extend(results, info)
    /\ url' = RewriteScheme(NextHref(info))
    /\ params' = ClearParams(params)
    /\ IF TruthyStr(RewriteScheme(NextHref(info)))
       THEN pc' = "loop" /\ outcome' = outcome
       ELSE pc' = "done" /\ outcome' = Return(JList(Extend(results, info)))

\* lines 87-99: one iteration of `while url`
list_legislation_page ==
    /\ pc = "loop"
    /\ TruthyStr(url)
    /\ Len(reqs) < MaxRequests
    /\ LET resp == Serve(server, url.s) IN
        /\ reqs' = Sent(reqs, Request("GET", url.s, params, {}))
        /\ resps' = Append(resps, resp)
        /\ IF RaisesForStatus(resp.status)
           THEN /\ pc' = "done"
                /\ outcome' = Raise(resp.status)
                /\ UNCHANGED <<results, url, params>>
           ELSE ListAdvance(resp)
    /\ UNCHANGED <<self_url, op, server, logs>>

Next ==
    \/ find_legislation
    \/ get_legislation
    \/ list_legislation
    \/ list_legislation_page
    \/ create_legislation_work
    \/ create_legislation
    \/ delete_legislation
    \/ update_legislation
    \/ upload_file
    \/ list_legislation_files

Spec == Init /\ [][Next]_vars

\* the loop runs to completion once entered: the call is synchronous
FairSpec == Spec /\ WF_vars(list_legislation_page)

(* ============================ properties ============================== *)

Done(name) == pc = "done" /\ op = name

\* the status classes of the specification: 400 and above is an error
IsErrorStatus(status) == status >= 400

EmptyData(d) == d = JNull \/ d = JObj(<<>>) \/ d = JList(<<>>)

\* the response of a single-request call
TheResponse == resps[1]

\* C3: find_legislation on a successful response returns absent when `data`
\* is empty and the first element of `data` otherwise; on an error status it
\* fails instead of returning.
C3_FindFirstOrAbsent ==
    Done("find_legislation") =>
        IF IsErrorStatus(TheResponse.status)
        THEN outcome.kind = "raise" /\ outcome.status = TheResponse.status
        ELSE IF Len(TheResponse.data.l) = 0
        THEN outcome = Return(JNull)
        ELSE outcome = Return(JObj(Head(TheResponse.data.l)))

C3_Witness ==
    /\ Done("find_legislation")
    /\ TheResponse.status = 200
    /\ Len(TheResponse.data.l) = 2
    /\ outcome.val = JObj(O2)

\* C2: get_legislation has exactly four outcomes: 404 returns absent; any
\* other error status fails; success with empty `data` returns absent;
\* success with non-empty `data` returns that value verbatim.
C2_GetFourOutcomes ==
    Done("get_legislation") =>
        CASE TheResponse.status = 404 -> outcome = Return(JNull)
          [] TheResponse.status # 404 /\ IsErrorStatus(TheResponse.status) ->
                outcome = Raise(TheResponse.status)
          [] ~IsErrorStatus(TheResponse.status) /\ EmptyData(TheResponse.data) ->
                outcome = Return(JNull)
          [] ~IsErrorStatus(TheResponse.status) /\ ~EmptyData(TheResponse.data) ->
                outcome = Return(TheResponse.data)

C2_Witness ==
    /\ Done("get_legislation")
    /\ TheResponse.status = 404
    /\ ~EmptyData(TheResponse.data)
    /\ outcome.kind = "return"

LoggingOps == {"create_legislation_work", "create_legislation", "upload_file"}

\* C4: in create_legislation_work, create_legislation and upload_file a
\* status >= 400 causes exactly one error-log line containing the raw
\* response body and the call fails with the HTTP error without a value;
\* below 400 no log line is emitted.
C4_LogThenFail ==
    (pc = "done" /\ op \in LoggingOps) =>
        IF IsErrorStatus(TheResponse.status)
        THEN /\ Len(logs) = 1
             /\ \E i \in 1..Len(logs[1]) : logs[1][i] = TheResponse.text
             /\ outcome = Raise(TheResponse.status)
        ELSE logs = <<>>

C4_Witness ==
    /\ Done("create_legislation_work")
    /\ TheResponse.status = 422
    /\ TheResponse.text = "body2"
    /\ logs = <<<<"Error from lii: ", "body2">>>>
    /\ outcome.kind = "raise"

MutatingOps == {"create_legislation_work", "create_legislation", "update_legislation",
                "delete_legislation", "upload_file"}

\* C7 as stated: every mutating call that succeeds returns the `data` object
\* of the response envelope.
C7_AllMutatingReturnData ==
    (pc = "done" /\ op \in MutatingOps /\ outcome.kind = "return") =>
        outcome.val = TheResponse.data

\* C7 amended: create_legislation_work, create_legislation and
\* update_legislation return the `data` object of the response verbatim,
\* whatever was sent; upload_file returns only the `id` member of `data`;
\* delete_legislation returns no value.
C7_MutatingReturns ==
    (pc = "done" /\ op \in MutatingOps /\ outcome.kind = "return") =>
        CASE op \in {"create_legislation_work", "create_legislation", "update_legislation"} ->
                outcome.val = TheResponse.data
          [] op = "upload_file" ->
                /\ outcome.val.t = "str"
                /\ \E i \in 1..Len(TheResponse.data.o) :
                      TheResponse.data.o[i] = <<"id", outcome.val.s>>
          [] op = "delete_legislation" -> outcome.val = JNull

C7_Witness ==
    /\ Done("update_legislation")
    /\ outcome.kind = "return"
    /\ reqs[1].json = O1
    /\ outcome.val = JObj(O2)

(* ------------------- the page chain the server offers ------------------ *)

PageAt(srv, key) == IF key \in DOMAIN srv THEN srv[key] ELSE NotFound

\* a page that ends the chain: it failed or it carries no next link
Terminal(page) == IsErrorStatus(page.status) \/ ~page.links.next

\* the pages reached from `key` by following next links, at most `fuel` of them
RECURSIVE Chain(_, _, _)
Chain(srv, key, fuel) ==
    IF fuel = 0 THEN <<>>
    ELSE IF Terminal(PageAt(srv, key)) THEN <<PageAt(srv, key)>>
    ELSE <<PageAt(srv, key)>> \o Chain(srv, PageOf(PageAt(srv, key).links.href), fuel - 1)

\* a walk of more pages than the server has must repeat one: the chain is finite
\* exactly when the walk ends at a terminal page
ChainOf(srv) == Chain(srv, FirstPage, Cardinality(DOMAIN srv) + 1)
ChainFinite(srv) == Terminal(ChainOf(srv)[Len(ChainOf(srv))])
ChainSucceeds(srv) == \A k \in 1..Len(ChainOf(srv)) : ~IsErrorStatus(ChainOf(srv)[k].status)

RECURSIVE ConcatData(_)
ConcatData(pages) ==
    IF pages = <<>> THEN <<>> ELSE Head(pages).data.l \o ConcatData(Tail(pages))

InList == op = "list_legislation"

\* C1: for every finite chain of successful pages, list_legislation requests
\* each page of the chain once, in order, and returns exactly the
\* concatenation of the pages' `data` arrays in page order (the empty
\* sequence for a single empty page).
C1_ListConcatenatesPages ==
    (Done("list_legislation") /\ ChainFinite(server) /\ ChainSucceeds(server)) =>
        /\ resps = ChainOf(server)
        /\ Len(reqs) = Len(ChainOf(server))
        /\ outcome = Return(JList(ConcatData(ChainOf(server))))
        /\ (ChainOf(server) = <<[status |-> 200, text |-> "ok", data |-> JList(<<>>),
                                 links |-> NoLinks]>> => outcome.val.l = <<>>)

C1_Witness ==
    /\ Done("list_legislation")
    /\ Len(resps) = 3
    /\ resps[1].data.l = <<O1>>
    /\ resps[2].data.l = <<O2, O1>>
    /\ resps[3].data.l = <<>>
    /\ outcome = Return(JList(<<O1, O2, O1>>))

\* C5: a next link beginning with http:// is followed at the same URL with
\* the scheme replaced by https://; any other next link is followed
\* unchanged; no follow-up request goes to a URL beginning with http://.
C5_FollowUpsUseHttps ==
    InList =>
        \A k \in 2..Len(reqs) :
            LET href == resps[k - 1].links.href
                target == reqs[k].url
            IN /\ resps[k - 1].links.next
               /\ IF SubSeq(href, 1, 7) = HTTP
                  THEN /\ SubSeq(target, 1, 8) = HTTPS
                       /\ SubSeq(target, 9, Len(target)) = SubSeq(href, 8, Len(href))
                  ELSE target = href
               /\ SubSeq(target, 1, 7) # HTTP

C5_Witness ==
    /\ InList
    /\ Len(reqs) >= 2
    /\ resps[1].links.href = HTTP \o <<"a">>
    /\ reqs[2].url = HTTPS \o <<"a">>

\* C6: the filter and fields parameters go with the first request only;
\* every later request of the call goes to the page the server's next link
\* names, with an empty parameter set.
C6_ParamsOnFirstRequestOnly ==
    InList =>
        \A k \in 1..Len(reqs) :
            IF k = 1
            THEN /\ \E place_code \in PlaceCodes :
                        <<"filter[field_frbr_uri][value]", <<"/akn/", place_code, "/">>>>
                            \in reqs[k].params
                 /\ <<"filter[field_frbr_uri][operator]", <<"STARTS_WITH">>>> \in reqs[k].params
                 /\ <<"fields[node--legislation]", <<"field_frbr_uri">>>> \in reqs[k].params
                 /\ reqs[k].url = self_url \o LEGISLATION_PATH
            ELSE /\ reqs[k].params = {}
                 /\ PageOf(reqs[k].url) = PageOf(resps[k - 1].links.href)

C6_Witness ==
    /\ InList
    /\ Len(reqs) = 3
    /\ Cardinality(reqs[1].params) = 3
    /\ reqs[2].params = {}
    /\ reqs[3].params = {}

\* C8: when the k-th page request of list_legislation returns an error
\* status the call fails with that status, returns none of the items of
\* pages 1..k-1, and issues no request after the failing one.
C8_ListAbortsOnFailingPage ==
    /\ [](InList =>
            \A k \in 1..Len(resps) :
                IsErrorStatus(resps[k].status) =>
                    /\ pc = "done"
                    /\ outcome = Raise(resps[k].status)
                    /\ Len(reqs) = k)
    /\ [][(InList /\ Len(resps) > 0 /\ IsErrorStatus(resps[Len(resps)].status))
            => reqs' = reqs]_vars

C8_Witness ==
    /\ Done("list_legislation")
    /\ Len(resps) = 3
    /\ resps[3].status = 500
    /\ results = <<O1, O2, O1>>
    /\ outcome = Raise(500)

\* C9: no retries: a call of an operation other than list_legislation
\* issues exactly one request whatever the status; list_legislation issues
\* one request per page it handles; no request follows a failing response.
C9_NoRetries ==
    /\ (pc = "done" /\ ~InList) => (Len(reqs) = 1 /\ Len(resps) = 1)
    /\ InList =>
        /\ Len(reqs) = Len(resps)
        /\ \A k \in 1..Len(reqs) : k < Len(reqs) => ~IsErrorStatus(resps[k].status)
        /\ \A k \in 2..Len(reqs) : PageOf(reqs[k].url) = PageOf(resps[k - 1].links.href)
    /\ pc = "idle" => reqs = <<>>

C9_Witness ==
    /\ Done("delete_legislation")
    /\ TheResponse.status = 500
    /\ Len(reqs) = 1
    /\ outcome = Raise(500)

\* C10: list_legislation terminates whenever the chain of next links from
\* the first page is finite; with no page limit and no visited-URL check it
\* does not end while the chain goes round a cycle.
C10_ListTerminatesOnFiniteChain ==
    /\ (InList /\ ChainFinite(server)) ~> (pc = "done")
    /\ []((InList /\ ~ChainFinite(server)) => pc # "done")

C10_Witness ==
    /\ Done("list_legislation")
    /\ ChainFinite(server)
    /\ Len(reqs) = 3
    /\ outcome.kind = "return"
    /\ Len(results) = 5

====
